---- MODULE Spec2Model ----
(***************************************************************************)
(* Eigix: the fixed-shape dense containers Matrix<T, Rows, Cols>           *)
(* (Matrix2D.hpp) and Tensor3D<T, Depth, Rows, Cols> (Tensor3D.hpp), with  *)
(* T = int as in tests/test_2d.cpp and the 3D test.                        *)
(*                                                                         *)
(* int is modelled as a two's-complement integer of IntBits bits.  The     *)
(* results of + - * that leave the range wrap around (what every build of  *)
(* the library produces); a quotient that is not representable, x / 0 or   *)
(* TMin / -1, is undefined behaviour whose outcome depends on the target:  *)
(* the divide instruction traps (x86) or yields a wrapped value (AArch64). *)
(***************************************************************************)
EXTENDS Integers, Sequences, FiniteSets, TLC

\* ------------------------------------------------------------------ bounds
IntBits == 4       \* width of the element type T
MaxCells == 4      \* largest number of cells of an instantiated container
MaxN == 4          \* largest N of the N x N identity scenario

\* --------------------------------------------------- element type T = int
TMod == 2 ^ IntBits
TMin == -(2 ^ (IntBits - 1))
TMax == (2 ^ (IntBits - 1)) - 1
T == TMin..TMax

\* static_cast<T>(x) and the wrap-around of an out-of-range result
Cast(n) == ((n - TMin) % TMod) + TMin

TAdd(x, y) == Cast(x + y)
TSub(x, y) == Cast(x - y)
TMul(x, y) == Cast(x * y)

Abs(n) == IF n < 0 THEN -n ELSE n

\* Quot with the quotient rounded toward minus infinity
QuotFloor(x, y) == IF y > 0 THEN x \div y ELSE (-x) \div (-y)

\* x / y of C++: the quotient truncated toward zero (y # 0)
Quot(x, y) ==
    IF (x < 0) = (y < 0) THEN Abs(x) \div Abs(y) ELSE -(Abs(x) \div Abs(y))

\* the quotient is not representable in T: undefined behaviour
DivUndefined(x, y) == y = 0 \/ (x = TMin /\ y = -1)

\* what the divide yields on a target whose instruction does not trap
TDiv(x, y) == IF y = 0 THEN 0 ELSE Cast(Quot(x, y))

\* the outcomes of an undefined division
HwOutcomes == {"trap", "wrap"}

\* --------------------------------------------------------------- Matrix
numRows(m) == Cardinality(DOMAIN m)
numCols(m) == Cardinality(DOMAIN m[0])

\* Matrix(): every cell T{}
Matrix(R, C) == [r \in 0..(R - 1) |-> [c \in 0..(C - 1) |-> 0]]

\* MatrixOutOfRange with the row bound off by one
MatrixOutOfRangeOffByOne(m, row, col) ==
    row + 1 >= numRows(m) \/ col >= numCols(m)

\* the bounds check of operator(): TRUE when the access throws
MatrixOutOfRange(m, row, col) == row >= numRows(m) \/ col >= numCols(m)

\* const T& operator()(row, col) const
MatrixAt(m, row, col) ==
    IF MatrixOutOfRange(m, row, col)
    THEN [status |-> "out_of_range", value |-> 0]
    ELSE [status |-> "ok", value |-> m[row][col]]

\* T& operator()(row, col), then assignment of v through the reference
MatrixAssign(m, row, col, v) ==
    IF MatrixOutOfRange(m, row, col)
    THEN [status |-> "out_of_range", value |-> m]
    ELSE [status |-> "ok", value |-> [m EXCEPT ![row][col] = v]]

\* DotLoop with sum = ... in place of sum += ...
RECURSIVE DotLoopAssign(_, _, _, _, _, _)
DotLoopAssign(m, other, i, j, k, sum) ==
    IF k < numCols(m)
    THEN DotLoopAssign(m, other, i, j, k + 1,
                       TMul(MatrixAt(m, i, k).value, MatrixAt(other, k, j).value))
    ELSE sum

\* the k loop of operator*: sum += (*this)(i, k) * other(k, j)
RECURSIVE DotLoop(_, _, _, _, _, _)
DotLoop(m, other, i, j, k, sum) ==
    IF k < numCols(m)
    THEN DotLoop(m, other, i, j, k + 1,
                 TAdd(sum, TMul(MatrixAt(m, i, k).value,
                                MatrixAt(other, k, j).value)))
    ELSE sum

\* MatrixTimes with the k loop started at 1
MatrixTimesFromOne(m, other) ==
    [i \in 0..(numRows(m) - 1) |->
        [j \in 0..(numCols(other) - 1) |-> DotLoop(m, other, i, j, 1, 0)]]

\* operator*(const Matrix<T, OtherRows, OtherCols>&)
MatrixTimes(m, other) ==
    [i \in 0..(numRows(m) - 1) |->
        [j \in 0..(numCols(other) - 1) |-> DotLoop(m, other, i, j, 0, 0)]]

\* operator+
MatrixPlus(m, other) ==
    [r \in 0..(numRows(m) - 1) |->
        [c \in 0..(numCols(m) - 1) |->
            TAdd(MatrixAt(m, r, c).value, MatrixAt(other, r, c).value)]]

\* operator-
MatrixMinus(m, other) ==
    [r \in 0..(numRows(m) - 1) |->
        [c \in 0..(numCols(m) - 1) |->
            TSub(MatrixAt(m, r, c).value, MatrixAt(other, r, c).value)]]

\* operator/: the divisor test, then the element loop
MatrixDiv(m, scalar, hw) ==
    IF scalar = 0
    THEN [status |-> "division_by_zero", value |-> m]
    ELSE IF hw = "trap" /\ \E r \in DOMAIN m : \E c \in DOMAIN m[r] :
                               DivUndefined(m[r][c], scalar)
    THEN [status |-> "trap", value |-> m]
    ELSE [status |-> "ok",
          value |-> [r \in 0..(numRows(m) - 1) |->
                        [c \in 0..(numCols(m) - 1) |->
                            TDiv(MatrixAt(m, r, c).value, scalar)]]]

\* the loops of populate: data[r][c] = values[k++]
RECURSIVE MatrixPopulateLoop(_, _, _, _, _)
MatrixPopulateLoop(data, values, r, c, k) ==
    IF r >= numRows(data) THEN data
    ELSE IF c >= numCols(data)
    THEN MatrixPopulateLoop(data, values, r + 1, 0, k)
    ELSE MatrixPopulateLoop([data EXCEPT ![r][c] = Cast(values[k + 1])],
                            values, r, c + 1, k + 1)

\* populate(args...): static_assert on the count, then the loops
MatrixPopulate(m, args) ==
    IF Len(args) # numRows(m) * numCols(m)
    THEN [status |-> "argument_count_mismatch", value |-> m]
    ELSE [status |-> "ok", value |-> MatrixPopulateLoop(m, args, 0, 0, 0)]

\* -------------------------------------------------------------- Tensor3D
tnumDepth(t) == Cardinality(DOMAIN t)
tnumRows(t) == Cardinality(DOMAIN t[0])
tnumCols(t) == Cardinality(DOMAIN t[0][0])

\* Tensor3D(): every cell T{}
Tensor3D(D, R, C) ==
    [d \in 0..(D - 1) |-> [r \in 0..(R - 1) |-> [c \in 0..(C - 1) |-> 0]]]

\* the bounds check of operator(): TRUE when the access throws
Tensor3DOutOfRange(t, depth, row, col) ==
    depth >= tnumDepth(t) \/ row >= tnumRows(t) \/ col >= tnumCols(t)

\* const T& operator()(depth, row, col) const
Tensor3DAt(t, depth, row, col) ==
    IF Tensor3DOutOfRange(t, depth, row, col)
    THEN [status |-> "out_of_range", value |-> 0]
    ELSE [status |-> "ok", value |-> t[depth][row][col]]

\* T& operator()(depth, row, col), then assignment of v through the reference
Tensor3DAssign(t, depth, row, col, v) ==
    IF Tensor3DOutOfRange(t, depth, row, col)
    THEN [status |-> "out_of_range", value |-> t]
    ELSE [status |-> "ok", value |-> [t EXCEPT ![depth][row][col] = v]]

\* operator+
Tensor3DPlus(t, other) ==
    [d \in 0..(tnumDepth(t) - 1) |->
        [r \in 0..(tnumRows(t) - 1) |->
            [c \in 0..(tnumCols(t) - 1) |->
                TAdd(Tensor3DAt(t, d, r, c).value,
                     Tensor3DAt(other, d, r, c).value)]]]

\* Tensor3DMinus with the + of operator+ left in
Tensor3DMinusAdds(t, other) ==
    [d \in 0..(tnumDepth(t) - 1) |->
        [r \in 0..(tnumRows(t) - 1) |->
            [c \in 0..(tnumCols(t) - 1) |->
                TAdd(Tensor3DAt(t, d, r, c).value,
                     Tensor3DAt(other, d, r, c).value)]]]

\* operator-
Tensor3DMinus(t, other) ==
    [d \in 0..(tnumDepth(t) - 1) |->
        [r \in 0..(tnumRows(t) - 1) |->
            [c \in 0..(tnumCols(t) - 1) |->
                TSub(Tensor3DAt(t, d, r, c).value,
                     Tensor3DAt(other, d, r, c).value)]]]

\* operator*(const T& scalar)
Tensor3DTimes(t, scalar) ==
    [d \in 0..(tnumDepth(t) - 1) |->
        [r \in 0..(tnumRows(t) - 1) |->
            [c \in 0..(tnumCols(t) - 1) |->
                TMul(Tensor3DAt(t, d, r, c).value, scalar)]]]

\* ScalarTimesTensor3D returning the tensor unscaled
ScalarTimesTensor3DUnscaled(scalar, t) == t

\* the free operator*(const T& scalar, const Tensor3D& tensor)
ScalarTimesTensor3D(scalar, t) == Tensor3DTimes(t, scalar)

\* operator/: the divisor test, then the element loop
Tensor3DDiv(t, scalar, hw) ==
    IF scalar = 0
    THEN [status |-> "division_by_zero", value |-> t]
    ELSE IF hw = "trap" /\ \E d \in DOMAIN t : \E r \in DOMAIN t[d] :
                               \E c \in DOMAIN t[d][r] :
                                   DivUndefined(t[d][r][c], scalar)
    THEN [status |-> "trap", value |-> t]
    ELSE [status |-> "ok",
          value |-> [d \in 0..(tnumDepth(t) - 1) |->
                        [r \in 0..(tnumRows(t) - 1) |->
                            [c \in 0..(tnumCols(t) - 1) |->
                                TDiv(Tensor3DAt(t, d, r, c).value, scalar)]]]]

\* Tensor3DPopulateLoop with the loops nested as its comment says ("depth
\* varies fastest, then row, then col")
RECURSIVE Tensor3DPopulateLoopDepthFastest(_, _, _, _, _, _)
Tensor3DPopulateLoopDepthFastest(data, values, d, r, c, k) ==
    IF c >= tnumCols(data) THEN data
    ELSE IF r >= tnumRows(data)
    THEN Tensor3DPopulateLoopDepthFastest(data, values, 0, 0, c + 1, k)
    ELSE IF d >= tnumDepth(data)
    THEN Tensor3DPopulateLoopDepthFastest(data, values, 0, r + 1, c, k)
    ELSE Tensor3DPopulateLoopDepthFastest(
             [data EXCEPT ![d][r][c] = Cast(values[k + 1])],
             values, d + 1, r, c, k + 1)

\* the loops of populate: data[d][r][c] = values[k++]
RECURSIVE Tensor3DPopulateLoop(_, _, _, _, _, _)
Tensor3DPopulateLoop(data, values, d, r, c, k) ==
    IF d >= tnumDepth(data) THEN data
    ELSE IF r >= tnumRows(data)
    THEN Tensor3DPopulateLoop(data, values, d + 1, 0, 0, k)
    ELSE IF c >= tnumCols(data)
    THEN Tensor3DPopulateLoop(data, values, d, r + 1, 0, k)
    ELSE Tensor3DPopulateLoop([data EXCEPT ![d][r][c] = Cast(values[k + 1])],
                              values, d, r, c + 1, k + 1)

\* populate(args...): static_assert on the count, then the loops
Tensor3DPopulate(t, args) ==
    IF Len(args) # tnumDepth(t) * tnumRows(t) * tnumCols(t)
    THEN [status |-> "argument_count_mismatch", value |-> t]
    ELSE [status |-> "ok", value |-> Tensor3DPopulateLoop(t, args, 0, 0, 0, 0)]

\* ------------------------------------------------------ the output sink
\* The formatting state of a std::ostream and the items written to it.
\* std::ios(nullptr): the state basic_ios::init gives a fresh stream
DefaultFmt ==
    [flags |-> {"skipws", "dec"}, precision |-> 6, width |-> 0, out |-> <<>>]

Text(s) == [kind |-> "text", text |-> s, num |-> 0, width |-> 0,
            precision |-> 0, flags |-> {}]
Num(os, n) == [kind |-> "num", text |-> "", num |-> n, width |-> os.width,
               precision |-> os.precision, flags |-> os.flags]

\* os << "text": the item is written and width() is reset to 0
InsertText(os, s) == [os EXCEPT !.out = Append(@, Text(s)), !.width = 0]

\* os << number: written under the current flags, precision and width, and
\* width() is reset to 0
InsertNum(os, n) == [os EXCEPT !.out = Append(@, Num(os, n)), !.width = 0]

\* os << std::fixed: setf(fixed, floatfield)
Fixed(os) == [os EXCEPT !.flags = (@ \ {"fixed", "scientific"}) \cup {"fixed"}]

\* os << std::scientific: setf(scientific, floatfield)
Scientific(os) ==
    [os EXCEPT !.flags = (@ \ {"fixed", "scientific"}) \cup {"scientific"}]

\* os << std::setprecision(n)
SetPrecision(os, n) == [os EXCEPT !.precision = n]

\* os << std::setw(n)
SetW(os, n) == [os EXCEPT !.width = n]

\* os.flags(f)
SetFlags(os, f) == [os EXCEPT !.flags = f]

\* os.copyfmt(other): flags, precision, width (and fill) of other
CopyFmt(os, other) ==
    [os EXCEPT !.flags = other.flags, !.precision = other.precision,
               !.width = other.width]

\* the field width both operator<< use
width == 8

\* one row: "[", the cells under setw(width) separated by ", ", " ]\n"
RECURSIVE PrintCells(_, _, _, _)
PrintCells(os, row, c, lead) ==
    IF c >= Cardinality(DOMAIN row)
    THEN InsertText(os, " ]\n")
    ELSE PrintCells(
           InsertText(InsertNum(SetW(IF c = 0 THEN InsertText(os, lead) ELSE os,
                                     width), row[c]),
                      IF c = Cardinality(DOMAIN row) - 1 THEN "" ELSE ", "),
           row, c + 1, lead)

\* the row loop
RECURSIVE PrintRows(_, _, _, _)
PrintRows(os, m, r, lead) ==
    IF r >= numRows(m) THEN os
    ELSE PrintRows(PrintCells(os, m[r], 0, lead), m, r + 1, lead)

\* operator<<(std::ostream&, const Matrix&)
MatrixPrint(os, m) ==
    LET header == InsertText(InsertNum(InsertText(InsertNum(
                      InsertText(os, "Matrix ("), numRows(m)), "x"),
                      numCols(m)), "):\n")
        body == PrintRows(SetPrecision(Fixed(header), 2), m, 0, "[")
    IN CopyFmt(body, DefaultFmt)

\* the depth loop: a labelled slice, and a blank line between slices
RECURSIVE PrintSlices(_, _, _)
PrintSlices(os, tensor, d) ==
    IF d >= tnumDepth(tensor) THEN os
    ELSE LET label == InsertText(InsertNum(InsertText(os, "Depth Slice ["), d),
                                 "]:\n")
             slice == PrintRows(label, tensor[d], 0, "  [")
         IN PrintSlices(IF d < tnumDepth(tensor) - 1
                        THEN InsertText(slice, "\n") ELSE slice,
                        tensor, d + 1)

\* operator<<(std::ostream&, const Tensor3D&)
Tensor3DPrint(os, tensor) ==
    LET header == InsertText(InsertNum(InsertText(InsertNum(InsertText(
                      InsertNum(InsertText(os, "Tensor3D ("),
                                tnumDepth(tensor)), "x"),
                      tnumRows(tensor)), "x"), tnumCols(tensor)), "):\n")
        original_flags == header.flags
        body == PrintSlices(SetPrecision(Fixed(header), 2), tensor, 0)
    IN SetFlags(body, original_flags)

\* ------------------------------------------------------------- the caller
\* One run of a registered test ("2D" or "3D", test_main.cpp): the containers
\* are constructed, populated, combined by operators and inspected.
VARIABLES test,        \* the registered test that runs
          Depth, Rows, Cols, OtherRows, OtherCols,   \* template arguments
          a, b,        \* Matrix<T, Rows, Cols>, Matrix<T, OtherRows, OtherCols>
          t, u,        \* two Tensor3D<T, Depth, Rows, Cols>
          res,         \* the value returned by the last operator
          ret,         \* the value read through the last const operator()
          call,        \* the last call and its arguments
          outcome,     \* how the last call ended
          pc,          \* the caller's position
          cout,        \* the output sink the tests print to
          coutBefore   \* the sink as it was when the last print was called

vars == <<test, Depth, Rows, Cols, OtherRows, OtherCols,
          a, b, t, u, res, ret, call, outcome, pc, cout, coutBefore>>

sink == <<cout, coutBefore>>

shape == <<test, Depth, Rows, Cols, OtherRows, OtherCols>>

\* the argument values the caller uses
Starts == {TMin, 1}
Steps == {0, 1}
Scalars == {TMin, -1, 0, 2}
WriteVals == {TMax}

\* populate(s, s + d, s + 2d, ...) with n arguments
ArgList(n, s, d) == [p \in 1..n |-> Cast(s + (p - 1) * d)]

\* the argument lists tried on a container of n cells: the right count, one
\* argument too few, one too many
ArgLists(n) ==
    {ArgList(len, s, d) : len \in {n - 1, n, n + 1}, s \in Starts, d \in Steps}

NoCall ==
    [name |-> "none", obj |-> "none", rhs |-> "none", scalar |-> 0,
     depth |-> 0, row |-> 0, col |-> 0, value |-> 0, args |-> <<>>]

Dims == 1..MaxCells

Init ==
    /\ test \in {"2D", "3D"}
    /\ Depth \in Dims /\ Rows \in Dims /\ Cols \in Dims
    /\ OtherRows \in Dims /\ OtherCols \in Dims
    /\ Depth * Rows * Cols <= MaxCells
    /\ OtherRows * OtherCols <= MaxCells
    /\ test = "2D" =>
         /\ Depth = 1
         /\ OtherRows = Cols \/ (OtherRows = Rows /\ OtherCols = Cols)
    /\ test = "3D" => OtherRows = Rows /\ OtherCols = Cols
    /\ a = Matrix(Rows, Cols)
    /\ b = Matrix(OtherRows, OtherCols)
    /\ t = Tensor3D(Depth, Rows, Cols)
    /\ u = Tensor3D(Depth, Rows, Cols)
    /\ res = IF test = "2D" THEN Matrix(Rows, Cols)
                            ELSE Tensor3D(Depth, Rows, Cols)
    /\ ret = 0
    /\ call = NoCall
    /\ outcome = "none"
    /\ pc = "setup"
    /\ cout = DefaultFmt
    /\ coutBefore = DefaultFmt

\* ---- Matrix calls
MatrixObj(o) == IF o = "a" THEN a ELSE IF o = "b" THEN b ELSE res

\* a.populate(args...) or b.populate(args...)
MatrixPopulateCall ==
    /\ test = "2D" /\ pc = "setup"
    /\ \E o \in {"a", "b"} :
       \E args \in ArgLists(numRows(MatrixObj(o)) * numCols(MatrixObj(o))) :
         LET r == MatrixPopulate(MatrixObj(o), args) IN
           /\ a' = IF o = "a" THEN r.value ELSE a
           /\ b' = IF o = "b" THEN r.value ELSE b
           /\ outcome' = r.status
           /\ call' = [NoCall EXCEPT !.name = "populate", !.obj = o,
                                     !.args = args]
    /\ UNCHANGED <<shape, sink, t, u, res, ret, pc>>

\* the right operands a call on a can take: same-typed for + and -
SameTyped == {o \in {"a", "b"} :
                 /\ numRows(MatrixObj(o)) = numRows(a)
                 /\ numCols(MatrixObj(o)) = numCols(a)}

\* static_assert(Cols == OtherRows) of operator*
Multipliable == {o \in {"a", "b"} : numCols(a) = numRows(MatrixObj(o))}

\* a * a or a * b
MatrixTimesCall ==
    /\ test = "2D" /\ pc \in {"setup", "called"}
    /\ \E o \in Multipliable :
         /\ res' = MatrixTimes(a, MatrixObj(o))
         /\ call' = [NoCall EXCEPT !.name = "multiply", !.obj = "a", !.rhs = o]
    /\ outcome' = "ok"
    /\ pc' = "called"
    /\ UNCHANGED <<shape, sink, a, b, t, u, ret>>

\* MatrixPlusCall with the sum accumulated into the left operand (operator+=)
MatrixPlusCallInPlace ==
    /\ test = "2D" /\ pc \in {"setup", "called"}
    /\ \E o \in SameTyped :
         /\ a' = MatrixPlus(a, MatrixObj(o))
         /\ res' = MatrixPlus(a, MatrixObj(o))
         /\ call' = [NoCall EXCEPT !.name = "add", !.obj = "a", !.rhs = o]
    /\ outcome' = "ok"
    /\ pc' = "called"
    /\ UNCHANGED <<shape, sink, b, t, u, ret>>

\* a + a or a + b
MatrixPlusCall ==
    /\ test = "2D" /\ pc \in {"setup", "called"}
    /\ \E o \in SameTyped :
         /\ res' = MatrixPlus(a, MatrixObj(o))
         /\ call' = [NoCall EXCEPT !.name = "add", !.obj = "a", !.rhs = o]
    /\ outcome' = "ok"
    /\ pc' = "called"
    /\ UNCHANGED <<shape, sink, a, b, t, u, ret>>

\* a - a or a - b
MatrixMinusCall ==
    /\ test = "2D" /\ pc \in {"setup", "called"}
    /\ \E o \in SameTyped :
         /\ res' = MatrixMinus(a, MatrixObj(o))
         /\ call' = [NoCall EXCEPT !.name = "subtract", !.obj = "a", !.rhs = o]
    /\ outcome' = "ok"
    /\ pc' = "called"
    /\ UNCHANGED <<shape, sink, a, b, t, u, ret>>

\* a / scalar: a result, a std::runtime_error, or the trap of an undefined
\* division, which ends the run
MatrixDivCall ==
    /\ test = "2D" /\ pc \in {"setup", "called"}
    /\ \E scalar \in Scalars : \E hw \in HwOutcomes :
         LET r == MatrixDiv(a, scalar, hw) IN
           /\ res' = IF r.status = "ok" THEN r.value ELSE res
           /\ outcome' = r.status
           /\ pc' = IF r.status = "trap" THEN "done" ELSE "called"
           /\ call' = [NoCall EXCEPT !.name = "divide", !.obj = "a",
                                     !.scalar = scalar]
    /\ UNCHANGED <<shape, sink, a, b, t, u, ret>>

\* the Cols x Cols matrix k * I the caller scales a Matrix with (Matrix has no
\* scalar operator*): populate(k, 0, ..., 0, k, ...)
ScalarArgs(N, k) ==
    [p \in 1..(N * N) |-> IF (p - 1) \div N = (p - 1) % N THEN k ELSE 0]

\* (a / scalar) * kI
MatrixDivTimesCall ==
    /\ test = "2D" /\ pc \in {"setup", "called"}
    /\ \E scalar \in Scalars : \E hw \in HwOutcomes :
         LET q == MatrixDiv(a, scalar, hw)
             kI == MatrixPopulate(Matrix(numCols(a), numCols(a)),
                                  ScalarArgs(numCols(a), scalar)).value
         IN
           /\ res' = IF q.status = "ok" THEN MatrixTimes(q.value, kI) ELSE res
           /\ outcome' = q.status
           /\ pc' = IF q.status = "trap" THEN "done" ELSE "called"
           /\ call' = [NoCall EXCEPT !.name = "div_times", !.obj = "a",
                                     !.scalar = scalar]
    /\ UNCHANGED <<shape, sink, a, b, t, u, ret>>

\* the objects the caller inspects: an operand before any operator call, the
\* returned value after one
Inspected2D == IF pc = "setup" THEN {"a"} ELSE {"res"}

\* x(row, col) read through the const accessor
MatrixAtCall ==
    /\ test = "2D" /\ pc \in {"setup", "called"}
    /\ \E o \in Inspected2D :
       \E row \in 0..numRows(MatrixObj(o)) : \E col \in 0..numCols(MatrixObj(o)) :
         LET r == MatrixAt(MatrixObj(o), row, col) IN
           /\ ret' = IF r.status = "ok" THEN r.value ELSE ret
           /\ outcome' = r.status
           /\ call' = [NoCall EXCEPT !.name = "at", !.obj = o,
                                     !.row = row, !.col = col]
    /\ pc' = "done"
    /\ UNCHANGED <<shape, sink, a, b, t, u, res>>

\* x(row, col) = v through the non-const accessor
MatrixAssignCall ==
    /\ test = "2D" /\ pc \in {"setup", "called"}
    /\ \E o \in Inspected2D : \E v \in WriteVals :
       \E row \in 0..numRows(MatrixObj(o)) : \E col \in 0..numCols(MatrixObj(o)) :
         LET r == MatrixAssign(MatrixObj(o), row, col, v) IN
           /\ a' = IF o = "a" THEN r.value ELSE a
           /\ res' = IF o = "res" THEN r.value ELSE res
           /\ outcome' = r.status
           /\ call' = [NoCall EXCEPT !.name = "assign", !.obj = o,
                                     !.row = row, !.col = col, !.value = v]
    /\ pc' = "done"
    /\ UNCHANGED <<shape, sink, b, t, u, ret>>

Next2D ==
    \/ MatrixPopulateCall
    \/ MatrixTimesCall
    \/ MatrixPlusCall
    \/ MatrixMinusCall
    \/ MatrixDivCall
    \/ MatrixDivTimesCall
    \/ MatrixAtCall
    \/ MatrixAssignCall

\* ---- Tensor3D calls
Tensor3DObj(o) == IF o = "t" THEN t ELSE IF o = "u" THEN u ELSE res

\* t.populate(args...) or u.populate(args...)
Tensor3DPopulateCall ==
    /\ test = "3D" /\ pc = "setup"
    /\ \E o \in {"t", "u"} :
       \E args \in ArgLists(tnumDepth(t) * tnumRows(t) * tnumCols(t)) :
         LET r == Tensor3DPopulate(Tensor3DObj(o), args) IN
           /\ t' = IF o = "t" THEN r.value ELSE t
           /\ u' = IF o = "u" THEN r.value ELSE u
           /\ outcome' = r.status
           /\ call' = [NoCall EXCEPT !.name = "populate", !.obj = o,
                                     !.args = args]
    /\ UNCHANGED <<shape, sink, a, b, res, ret, pc>>

\* t + t or t + u
Tensor3DPlusCall ==
    /\ test = "3D" /\ pc \in {"setup", "called"}
    /\ \E o \in {"t", "u"} :
         /\ res' = Tensor3DPlus(t, Tensor3DObj(o))
         /\ call' = [NoCall EXCEPT !.name = "add", !.obj = "t", !.rhs = o]
    /\ outcome' = "ok"
    /\ pc' = "called"
    /\ UNCHANGED <<shape, sink, a, b, t, u, ret>>

\* t - t or t - u
Tensor3DMinusCall ==
    /\ test = "3D" /\ pc \in {"setup", "called"}
    /\ \E o \in {"t", "u"} :
         /\ res' = Tensor3DMinus(t, Tensor3DObj(o))
         /\ call' = [NoCall EXCEPT !.name = "subtract", !.obj = "t", !.rhs = o]
    /\ outcome' = "ok"
    /\ pc' = "called"
    /\ UNCHANGED <<shape, sink, a, b, t, u, ret>>

\* t * scalar
Tensor3DTimesCall ==
    /\ test = "3D" /\ pc \in {"setup", "called"}
    /\ \E scalar \in Scalars :
         /\ res' = Tensor3DTimes(t, scalar)
         /\ call' = [NoCall EXCEPT !.name = "times_scalar", !.obj = "t",
                                   !.scalar = scalar]
    /\ outcome' = "ok"
    /\ pc' = "called"
    /\ UNCHANGED <<shape, sink, a, b, t, u, ret>>

\* scalar * t
ScalarTimesTensor3DCall ==
    /\ test = "3D" /\ pc \in {"setup", "called"}
    /\ \E scalar \in Scalars :
         /\ res' = ScalarTimesTensor3D(scalar, t)
         /\ call' = [NoCall EXCEPT !.name = "scalar_times", !.obj = "t",
                                   !.scalar = scalar]
    /\ outcome' = "ok"
    /\ pc' = "called"
    /\ UNCHANGED <<shape, sink, a, b, t, u, ret>>

\* t / scalar
Tensor3DDivCall ==
    /\ test = "3D" /\ pc \in {"setup", "called"}
    /\ \E scalar \in Scalars : \E hw \in HwOutcomes :
         LET r == Tensor3DDiv(t, scalar, hw) IN
           /\ res' = IF r.status = "ok" THEN r.value ELSE res
           /\ outcome' = r.status
           /\ pc' = IF r.status = "trap" THEN "done" ELSE "called"
           /\ call' = [NoCall EXCEPT !.name = "divide", !.obj = "t",
                                     !.scalar = scalar]
    /\ UNCHANGED <<shape, sink, a, b, t, u, ret>>

\* (t / scalar) * scalar
Tensor3DDivTimesCall ==
    /\ test = "3D" /\ pc \in {"setup", "called"}
    /\ \E scalar \in Scalars : \E hw \in HwOutcomes :
         LET q == Tensor3DDiv(t, scalar, hw) IN
           /\ res' = IF q.status = "ok" THEN Tensor3DTimes(q.value, scalar)
                                        ELSE res
           /\ outcome' = q.status
           /\ pc' = IF q.status = "trap" THEN "done" ELSE "called"
           /\ call' = [NoCall EXCEPT !.name = "div_times", !.obj = "t",
                                     !.scalar = scalar]
    /\ UNCHANGED <<shape, sink, a, b, t, u, ret>>

Inspected3D == IF pc = "setup" THEN {"t"} ELSE {"res"}

\* x(depth, row, col) read through the const accessor
Tensor3DAtCall ==
    /\ test = "3D" /\ pc \in {"setup", "called"}
    /\ \E o \in Inspected3D :
       \E depth \in 0..tnumDepth(t) : \E row \in 0..tnumRows(t) :
       \E col \in 0..tnumCols(t) :
         LET r == Tensor3DAt(Tensor3DObj(o), depth, row, col) IN
           /\ ret' = IF r.status = "ok" THEN r.value ELSE ret
           /\ outcome' = r.status
           /\ call' = [NoCall EXCEPT !.name = "at", !.obj = o,
                                     !.depth = depth, !.row = row, !.col = col]
    /\ pc' = "done"
    /\ UNCHANGED <<shape, sink, a, b, t, u, res>>

\* x(depth, row, col) = v through the non-const accessor
Tensor3DAssignCall ==
    /\ test = "3D" /\ pc \in {"setup", "called"}
    /\ \E o \in Inspected3D : \E v \in WriteVals :
       \E depth \in 0..tnumDepth(t) : \E row \in 0..tnumRows(t) :
       \E col \in 0..tnumCols(t) :
         LET r == Tensor3DAssign(Tensor3DObj(o), depth, row, col, v) IN
           /\ t' = IF o = "t" THEN r.value ELSE t
           /\ res' = IF o = "res" THEN r.value ELSE res
           /\ outcome' = r.status
           /\ call' = [NoCall EXCEPT !.name = "assign", !.obj = o,
                                     !.depth = depth, !.row = row, !.col = col,
                                     !.value = v]
    /\ pc' = "done"
    /\ UNCHANGED <<shape, sink, a, b, u, ret>>

Next3D ==
    \/ Tensor3DPopulateCall
    \/ Tensor3DPlusCall
    \/ Tensor3DMinusCall
    \/ Tensor3DTimesCall
    \/ ScalarTimesTensor3DCall
    \/ Tensor3DDivCall
    \/ Tensor3DDivTimesCall
    \/ Tensor3DAtCall
    \/ Tensor3DAssignCall

Next == Next2D \/ Next3D

Spec == Init /\ [][Next]_vars

\* ---- printing, with the caller's own use of the sink before it
Precisions == {3}
Widths == {5}

\* std::cout << std::scientific, << std::setprecision(n), << std::setw(n) in
\* the caller
CoutConfigure ==
    /\ pc = "setup"
    /\ \/ cout' = Scientific(cout)
       \/ \E n \in Precisions : cout' = SetPrecision(cout, n)
       \/ \E n \in Widths : cout' = SetW(cout, n)
    /\ UNCHANGED <<shape, a, b, t, u, res, ret, call, outcome, pc, coutBefore>>

\* std::cout << x for a Matrix x
MatrixPrintCall ==
    /\ test = "2D" /\ pc \in {"setup", "called"}
    /\ \E o \in Inspected2D :
         /\ cout' = MatrixPrint(cout, MatrixObj(o))
         /\ call' = [NoCall EXCEPT !.name = "print", !.obj = o]
    /\ coutBefore' = cout
    /\ outcome' = "ok"
    /\ pc' = "done"
    /\ UNCHANGED <<shape, a, b, t, u, res, ret>>

\* std::cout << x for a Tensor3D x
Tensor3DPrintCall ==
    /\ test = "3D" /\ pc \in {"setup", "called"}
    /\ \E o \in Inspected3D :
         /\ cout' = Tensor3DPrint(cout, Tensor3DObj(o))
         /\ call' = [NoCall EXCEPT !.name = "print", !.obj = o]
    /\ coutBefore' = cout
    /\ outcome' = "ok"
    /\ pc' = "done"
    /\ UNCHANGED <<shape, a, b, t, u, res, ret>>

\* the instantiations printed: a Matrix<T, Rows, Cols> or a
\* Tensor3D<T, Depth, Rows, Cols>
InitFormat ==
    /\ test \in {"2D", "3D"}
    /\ Depth \in Dims /\ Rows \in Dims /\ Cols \in Dims
    /\ Depth * Rows * Cols <= MaxCells
    /\ test = "2D" => Depth = 1
    /\ OtherRows = 1 /\ OtherCols = 1
    /\ a = Matrix(Rows, Cols)
    /\ b = Matrix(OtherRows, OtherCols)
    /\ t = Tensor3D(Depth, Rows, Cols)
    /\ u = Tensor3D(Depth, Rows, Cols)
    /\ res = IF test = "2D" THEN Matrix(Rows, Cols)
                            ELSE Tensor3D(Depth, Rows, Cols)
    /\ ret = 0
    /\ call = NoCall
    /\ outcome = "none"
    /\ pc = "setup"
    /\ cout = DefaultFmt
    /\ coutBefore = DefaultFmt

NextFormat ==
    \/ CoutConfigure
    \/ MatrixPopulateCall
    \/ Tensor3DPopulateCall
    \/ MatrixPrintCall
    \/ Tensor3DPrintCall

SpecFormat == InitFormat /\ [][NextFormat]_vars

\* ---- test_2d: mat (N x N identity) * vec (N x 1), then the print
IdentityArgs(N) ==
    [p \in 1..(N * N) |-> IF (p - 1) \div N = (p - 1) % N THEN 1 ELSE 0]

VecVals == {TMin, -1, 3}

\* the vectors tried: populate(1, 2, ..., N) of the test and every vector
\* over VecVals
VecArgs(N) == {[p \in 1..N |-> p]} \cup [1..N -> VecVals]

InitIdentity ==
    /\ test = "2D"
    /\ Depth = 1
    /\ Rows \in 1..MaxN
    /\ Cols = Rows /\ OtherRows = Rows /\ OtherCols = 1
    /\ a = Matrix(Rows, Cols)
    /\ b = Matrix(OtherRows, OtherCols)
    /\ t = Tensor3D(1, 1, 1)
    /\ u = Tensor3D(1, 1, 1)
    /\ res = Matrix(Rows, OtherCols)
    /\ ret = 0
    /\ call = NoCall
    /\ outcome = "none"
    /\ pc = "setup"
    /\ cout = DefaultFmt
    /\ coutBefore = DefaultFmt

\* mat.populate(1, 0, 0, 0,  0, 1, 0, 0,  ...)
PopulateIdentityCall ==
    /\ pc = "setup"
    /\ LET r == MatrixPopulate(a, IdentityArgs(numRows(a))) IN
         /\ a' = r.value
         /\ outcome' = r.status
         /\ call' = [NoCall EXCEPT !.name = "populate", !.obj = "a",
                                   !.args = IdentityArgs(numRows(a))]
    /\ UNCHANGED <<shape, sink, b, t, u, res, ret, pc>>

\* vec.populate(v1, ..., vN)
PopulateVecCall ==
    /\ pc = "setup"
    /\ \E args \in VecArgs(numRows(b)) :
         LET r == MatrixPopulate(b, args) IN
           /\ b' = r.value
           /\ outcome' = r.status
           /\ call' = [NoCall EXCEPT !.name = "populate", !.obj = "b",
                                     !.args = args]
    /\ UNCHANGED <<shape, sink, a, t, u, res, ret, pc>>

\* std::cout << vecmod
PrintVecmodCall == pc = "called" /\ MatrixPrintCall

NextIdentity ==
    \/ PopulateVecCall
    \/ PopulateIdentityCall
    \/ MatrixTimesCall
    \/ PrintVecmodCall

SpecIdentity == InitIdentity /\ [][NextIdentity]_vars

\* ------------------------------------------------------------ properties
HasShape2(m, R, C) ==
    /\ DOMAIN m = 0..(R - 1)
    /\ \A r \in DOMAIN m : DOMAIN m[r] = 0..(C - 1)

HasShape3(x, D, R, C) ==
    /\ DOMAIN x = 0..(D - 1)
    /\ \A d \in DOMAIN x : HasShape2(x[d], R, C)

AllZero2(m) == \A r \in DOMAIN m : \A c \in DOMAIN m[r] : m[r][c] = 0
AllZero3(x) == \A d \in DOMAIN x : AllZero2(x[d])

\* the right operand of the last binary call and its column count
RhsMatrix == IF call.rhs = "a" THEN a ELSE b
RhsCols == IF call.rhs = "a" THEN Cols ELSE OtherCols
RhsTensor == IF call.rhs = "t" THEN t ELSE u

\* A(i,0)*B(0,j) + ... + A(i,n-1)*B(n-1,j) over the integers
RECURSIVE SumProducts(_, _, _, _, _)
SumProducts(A, B, i, j, n) ==
    IF n = 0 THEN 0
    ELSE SumProducts(A, B, i, j, n - 1) + A[i][n - 1] * B[n - 1][j]

\* C1: the product of an R x K and a K x C matrix is R x C, and its cell
\* (i, j) is the sum over k of A(i,k) * B(k,j), in T's arithmetic.
C1_Product ==
    call.name = "multiply" =>
        /\ HasShape2(res, Rows, RhsCols)
        /\ \A i \in 0..(Rows - 1) : \A j \in 0..(RhsCols - 1) :
               res[i][j] = Cast(SumProducts(a, RhsMatrix, i, j, Cols))

\* a 2 x 2 by 2 x 2 product of two different populated matrices, one of whose
\* sums leaves the range of T
C1_Witness ==
    /\ call.name = "multiply" /\ call.rhs = "b"
    /\ Rows = 2 /\ Cols = 2 /\ OtherCols = 2
    /\ a # b /\ ~AllZero2(a) /\ ~AllZero2(b)
    /\ res[0][0] # res[1][1]
    /\ \E i \in 0..1 : \E j \in 0..1 :
           SumProducts(a, b, i, j, 2) \notin T

IsIdentity(m, N) ==
    \A r \in 0..(N - 1) : \A c \in 0..(N - 1) :
        m[r][c] = IF r = c THEN 1 ELSE 0

\* C2: the N x N identity matrix times an N x 1 vector is that vector, cell
\* by cell.
C2_IdentityTimesVec ==
    (call.name = "multiply" /\ call.rhs = "b" /\ IsIdentity(a, Rows)) =>
        /\ HasShape2(res, Rows, 1)
        /\ \A i \in 0..(Rows - 1) : res[i][0] = b[i][0]

\* test_2d: the 4 x 4 identity times [1, 2, 3, 4]
C2_Witness ==
    /\ call.name = "multiply" /\ call.rhs = "b"
    /\ Rows = 4 /\ IsIdentity(a, 4)
    /\ \A i \in 0..3 : b[i][0] = i + 1 /\ res[i][0] = i + 1

\* a step that is an element access, against the container before the step
C3_AccessStep ==
    call'.name \in {"at", "assign"} =>
        LET o == call'.obj
            is3 == test = "3D"
            pre == IF is3 THEN Tensor3DObj(o) ELSE MatrixObj(o)
            post == IF o \in {"a", "t"} THEN (IF is3 THEN t' ELSE a') ELSE res'
            C == IF ~is3 /\ o = "res" THEN Cardinality(DOMAIN res[0]) ELSE Cols
            oob == \/ is3 /\ call'.depth >= Depth
                   \/ call'.row >= Rows
                   \/ call'.col >= C
            written == IF is3
                       THEN [pre EXCEPT ![call'.depth][call'.row][call'.col] =
                                            call'.value]
                       ELSE [pre EXCEPT ![call'.row][call'.col] = call'.value]
            cell == IF is3 THEN pre[call'.depth][call'.row][call'.col]
                           ELSE pre[call'.row][call'.col]
        IN /\ (outcome' = "out_of_range") <=> oob
           /\ ~oob => outcome' = "ok"
           /\ b' = b /\ u' = u
           /\ o # "res" => res' = res
           /\ o = "res" => a' = a /\ t' = t
           /\ (oob \/ call'.name = "at") => post = pre /\ a' = a /\ t' = t
           /\ oob => ret' = ret
           /\ (~oob /\ call'.name = "at") => ret' = cell
           /\ (~oob /\ call'.name = "assign") => post = written

\* C3: an element access throws out_of_range exactly when an index is not
\* below its bound; a throwing access changes nothing, and an access in range
\* reads (or writes) the cell at exactly those indices and no other.
C3_Access == [][C3_AccessStep]_vars

\* a write to a populated tensor whose depth index alone is out of range
C3_Witness ==
    /\ test = "3D" /\ call.name = "assign" /\ call.obj = "t"
    /\ call.depth = Depth /\ call.row < Rows /\ call.col < Cols
    /\ outcome = "out_of_range"
    /\ ~AllZero3(t)

\* q is c / k truncated toward zero
IsQuotient(q, c, k) ==
    /\ Abs(c - q * k) < Abs(k)
    /\ c - q * k = 0 \/ ((c - q * k < 0) = (c < 0))

\* a step that is a call of operator/
C4_DivideStep ==
    call'.name = "divide" =>
        /\ a' = a /\ t' = t
        /\ call'.scalar = 0 => outcome' = "division_by_zero" /\ res' = res
        /\ call'.scalar # 0 =>
             /\ outcome' = "ok"
             /\ IF test = "2D"
                THEN /\ HasShape2(res', Rows, Cols)
                     /\ \A r \in 0..(Rows - 1) : \A c \in 0..(Cols - 1) :
                            IsQuotient(res'[r][c], a[r][c], call'.scalar)
                ELSE /\ HasShape3(res', Depth, Rows, Cols)
                     /\ \A d \in 0..(Depth - 1) : \A r \in 0..(Rows - 1) :
                        \A c \in 0..(Cols - 1) :
                            IsQuotient(res'[d][r][c], t[d][r][c], call'.scalar)

\* C4: operator/ throws for the scalar 0, before any element is divided, with
\* no result and no change; for every other scalar it does not fail and
\* returns the same-shaped container of the cells divided by the scalar.
C4_Divide == [][C4_DivideStep]_vars

OperatorNames ==
    {"multiply", "add", "subtract", "divide", "times_scalar", "scalar_times",
     "div_times"}

\* a step that is an operator call or a write to the returned value
C5_FrameStep ==
    (call'.name \in OperatorNames \/ (call'.name = "assign" /\ call'.obj = "res"))
        => a' = a /\ b' = b /\ t' = t /\ u' = u

\* C5: no operator call, failing or not, changes a cell of an operand, and a
\* later write to a cell of the returned value changes no operand either.
C5_Frame == [][C5_FrameStep]_vars

\* a cell of the sum of two populated matrices has been overwritten
C5_Witness ==
    /\ call.name = "assign" /\ call.obj = "res" /\ outcome = "ok"
    /\ test = "2D" /\ Rows = 2 /\ Cols = 2
    /\ ~AllZero2(a) /\ ~AllZero2(b)
    /\ res[call.row][call.col] = call.value
    /\ a[call.row][call.col] # call.value

C7_ScalarTimes ==
    call.name \in {"scalar_times", "times_scalar"} =>
        /\ HasShape3(res, Depth, Rows, Cols)
        /\ \A d \in 0..(Depth - 1) : \A r \in 0..(Rows - 1) :
           \A c \in 0..(Cols - 1) :
               res[d][r][c] = Cast(t[d][r][c] * call.scalar)

\* 2 * t for a populated tensor with more than one slice
C7_Witness ==
    /\ call.name = "scalar_times" /\ call.scalar = 2
    /\ Depth = 2 /\ Rows * Cols = 2
    /\ ~AllZero3(t) /\ res # t

\* C8: printing a Matrix or a Tensor3D leaves the sink's flags, precision and
\* width as the caller had set them.
C8_SinkRestored ==
    call.name = "print" =>
        /\ cout.flags = coutBefore.flags
        /\ cout.precision = coutBefore.precision
        /\ cout.width = coutBefore.width

\* C9: + and - are element-wise on same-shaped containers; a default
\* constructed container is all zero, m + zero = m and m - m = zero.
C9_AddSubtract ==
    /\ (call.name = "none" /\ pc = "setup") =>
           AllZero2(a) /\ AllZero2(b) /\ AllZero3(t) /\ AllZero3(u)
    /\ (test = "2D" /\ call.name \in {"add", "subtract"}) =>
         /\ HasShape2(res, Rows, Cols)
         /\ \A r \in 0..(Rows - 1) : \A c \in 0..(Cols - 1) :
              res[r][c] = IF call.name = "add"
                          THEN Cast(a[r][c] + RhsMatrix[r][c])
                          ELSE Cast(a[r][c] - RhsMatrix[r][c])
         /\ (call.name = "add" /\ AllZero2(RhsMatrix)) => res = a
         /\ (call.name = "subtract" /\ call.rhs = "a") => AllZero2(res)
    /\ (test = "3D" /\ call.name \in {"add", "subtract"}) =>
         /\ HasShape3(res, Depth, Rows, Cols)
         /\ \A d \in 0..(Depth - 1) : \A r \in 0..(Rows - 1) :
            \A c \in 0..(Cols - 1) :
              res[d][r][c] = IF call.name = "add"
                             THEN Cast(t[d][r][c] + RhsTensor[d][r][c])
                             ELSE Cast(t[d][r][c] - RhsTensor[d][r][c])
         /\ (call.name = "add" /\ AllZero3(RhsTensor)) => res = t
         /\ (call.name = "subtract" /\ call.rhs = "t") => AllZero3(res)

\* t - t for a populated tensor with more than one slice
C9_Witness ==
    /\ test = "3D" /\ call.name = "subtract" /\ call.rhs = "t"
    /\ Depth = 2 /\ Rows * Cols = 2
    /\ ~AllZero3(t) /\ AllZero3(res)

\* the cells of the operand of a scalar call and of its result, paired
RoundTripCells ==
    IF test = "2D"
    THEN {<<a[r][c], res[r][c]>> : r \in 0..(Rows - 1), c \in 0..(Cols - 1)}
    ELSE {<<t[d][r][c], res[d][r][c]>> :
              d \in 0..(Depth - 1), r \in 0..(Rows - 1), c \in 0..(Cols - 1)}

\* C10 (as claimed): dividing by a nonzero k and scaling the result by k gives
\* back the original in every cell.
C10_RoundTrip ==
    (call.name = "div_times" /\ outcome = "ok") =>
        \A p \in RoundTripCells : p[2] = p[1]

\* C10 (as amended): for T = int the round trip gives back a cell exactly when
\* k divides it; any other cell becomes the multiple of k next to it on the
\* side of zero.
C10_RoundTripTruncates ==
    (call.name = "div_times" /\ outcome = "ok") =>
        /\ IF test = "2D" THEN HasShape2(res, Rows, Cols)
                          ELSE HasShape3(res, Depth, Rows, Cols)
        /\ \A p \in RoundTripCells :
             LET c == p[1]  r == p[2]  k == Abs(call.scalar) IN
               /\ r % k = 0
               /\ c % k = 0 => r = c
               /\ c % k # 0 => Abs(c - r) < k /\ Abs(r) < Abs(c)
                               /\ (r = 0 \/ (r < 0) = (c < 0))

\* a tensor with a negative odd cell, divided by 2 and scaled by 2
C10_Witness ==
    /\ test = "3D" /\ call.name = "div_times" /\ outcome = "ok"
    /\ call.scalar = 2
    /\ \E p \in RoundTripCells : p[1] < 0 /\ p[1] % 2 = 1 /\ p[2] = p[1] + 1

====
